---- MODULE Spec2Model ----
(***************************************************************************)
(* Model of dts/examples/tcn.py: the script that trains and evaluates a    *)
(* TCN.  The state is the parameter mapping, the position of the script    *)
(* and of main, main's local variables, the model instances created, the   *)
(* weight files on disk and the value main returns.  One action per        *)
(* statement group of main, in program order.                              *)
(***************************************************************************)
EXTENDS Integers, Sequences, FiniteSets, TLC

VARIABLES
    params,            \* vars(args): the parameter mapping (line 27, 35)
    paramsAtEntry,     \* contents of params when the current run of main started
    pc,                \* position of the script / of main
    runner,            \* the experiment runner the script invoked, with its arguments
    runs,              \* number of invocations of main so far
    dataset,           \* the dataset module selected (line 41-45)
    loaded,            \* scaler, train, test taken from load_data (line 54)
    trend,             \* main's local `trend` (line 54, 56, 106)
    windows,           \* X_train, y_train, X_test, y_test, exog_var_*, conditions_shape
    built,             \* the arguments build_model was called with (line 108-111)
    tcn,               \* the TCNModel instance (line 68)
    model,             \* the keras model returned by build_model (line 108)
    nextId,            \* next fresh object identity
    earlier,           \* model instances constructed by earlier runs of main
    steps,             \* the external calls of the current run, in order
    history,           \* what model.fit was given and returned (line 122/129)
    clock,             \* time.time()
    model_filepath,    \* line 139
    files,             \* weight files on disk
    evals,             \* the two tcn.evaluate calls: arguments and scores
    result,            \* the value main returned
    failedAt           \* the step whose exception left main

vars == <<params, paramsAtEntry, pc, runner, runs, dataset, loaded, trend, windows,
          built,          tcn, model, nextId, earlier, steps, history, clock, model_filepath, files,
          evals, result, failedAt>>

\* ---------------------------------------------------------------- bounds

TrainLen == 4       \* rows of the train split
TestLen == 4        \* rows of the test split (and of the test trend)
NumExog == 1        \* exogenous columns beside the target
NumMetrics == 2     \* entries of dts.utils.metrics
MaxRuns == 2        \* configurations a grid search runs

WindowSizes == {1, 2}     \* values of input_sequence_length
Horizons == {1, 2}        \* values of output_sequence_length
ScoreBases == {10, 20}    \* an evaluation's scores are base + 1, base + 2, ...

\* ---------------------------------------------------------------- values

None == [some |-> FALSE]
Some(v) == [some |-> TRUE, val |-> v]

NoId == 0

Min(a, b) == IF a <= b THEN a ELSE b

DatasetNames == {"gefcom", "uci", "household"}
TcnTypes == {"tcn", "conditional_tcn"}
LoadChoices == {"None", "weights.h5"}

ParamSets ==
    [dataset : DatasetNames,
     detrend : BOOLEAN,
     exogenous : BOOLEAN,
     tcn_type : TcnTypes,
     load : LoadChoices,
     grid_search : BOOLEAN,
     input_sequence_length : WindowSizes,
     output_sequence_length : Horizons]

\* ------------------------------------------------ collaborators of main

\* A cell of a series: which series, which row, which column.
Cell(series, i, f) == [series |-> series, pos |-> i, col |-> f]

Series(series, n, ncols) == [i \in 1..n |-> [f \in 1..ncols |-> Cell(series, i, f)]]

\* Column count of the splits: the target alone, or the target and the exogenous columns.
NumFeatures(exogenous) == IF exogenous THEN 1 + NumExog ELSE 1

\* dataset.load_data(...): the dictionary main reads 'scaler', 'train', 'test', 'trend' from.
\* The trend entry is the pair (train trend, test trend), each one column wide.
load_data(ds, detrend, exogenous_vars) ==
    [scaler |-> [fitted_by |-> ds, detrended |-> detrend],
     train |-> Series("train", TrainLen, NumFeatures(exogenous_vars)),
     test |-> Series("test", TestLen, NumFeatures(exogenous_vars)),
     trend |-> <<Series("trend_train", TrainLen, 1), Series("trend_test", TestLen, 1)>>]

Identity(n) == [i \in 1..n |-> i]

Orderings(n) == {p \in [1..n -> 1..n] : \A i, j \in 1..n : i # j => p[i] # p[j]}

\* The orders in which get_rnn_inputs may return its n windows.
ShuffleOrders(n, shuffle) == IF shuffle THEN Orderings(n) ELSE {Identity(n)}

NumWindows(data, window_size, horizon) ==
    IF Len(data) - window_size - horizon + 1 > 0
    THEN Len(data) - window_size - horizon + 1 ELSE 0

\* get_rnn_inputs(data, window_size, horizon, shuffle, multivariate_output), with the
\* order the shuffle produced given as `order`: window k starts at row order[k]; X holds
\* window_size rows of every column, y the next horizon rows (every column when
\* multivariate_output, else the target column alone).
get_rnn_inputs(data, window_size, horizon, order, multivariate_output) ==
    LET n == NumWindows(data, window_size, horizon)
    IN  [X |-> [k \in 1..n |-> [j \in 1..window_size |-> data[order[k] + j - 1]]],
         y |-> [k \in 1..n |-> [j \in 1..horizon |->
                  IF multivariate_output
                  THEN data[order[k] + window_size + j - 1]
                  ELSE data[order[k] + window_size + j - 1][1]]]]

\* y[:, :, 1:] and y[:, :, 0] of a [n_samples, horizon, n_features] array.
ExogColumns(y) == [k \in 1..Len(y) |-> [j \in 1..Len(y[k]) |-> Tail(y[k][j])]]
TargetColumn(y) == [k \in 1..Len(y) |-> [j \in 1..Len(y[k]) |-> y[k][j][1]]]

\* X.shape[1], X.shape[-1] of a [n_samples, window, n_features] array.
Shape1(X) == Len(X[1])
ShapeLast(X) == Len(X[1][1])

\* dts.utils.metrics: the metrics handed to compile; functions and strings both occur.
MetricEntry(i) == [is_str |-> (i % 2 = 0), name |-> <<"metric", i>>]
metrics == [i \in 1..NumMetrics |-> MetricEntry(i)]

\* The score lists tcn.evaluate can return: one scalar per metric of the model.
ScoreLists == {[i \in 1..NumMetrics |-> base + i] : base \in ScoreBases}

\* ------------------------------------------------ expressions of main

\* Mutant: the test on the name is written for the other loader.
SelectDatasetUciByName(dataset_name) ==
    IF dataset_name = "uci" THEN "uci_single_households" ELSE "gefcom2014"

\* Lines 42-45: the loader for a dataset name.
SelectDataset(dataset_name) ==
    IF dataset_name = "gefcom" THEN "gefcom2014" ELSE "uci_single_households"

\* Lines 54-56: main's local trend after loading.
TrendAfterLoad(p, data) == IF ~p.detrend THEN None ELSE Some(data.trend)

\* Mutant: the tcn_type test is forgotten.
FeedsPairWheneverExogenous(p) == p.exogenous

\* Lines 121 and 152: is the model fed the pair [X, exogenous variables]?
FeedsPair(p) == p.exogenous /\ p.tcn_type = "conditional_tcn"

\* Lines 139-141: the weights path.
WeightsPath(p, now) == <<"weights", p.tcn_type, p.dataset, now>>

\* Line 159: the names of the model's metrics.
MetricsNames(ms) == [i \in 1..Len(ms) |-> ms[i].name]

\* zip(names, scores): pairs up to the shorter of the two.
Zip(names, scores) == [i \in 1..Min(Len(names), Len(scores)) |-> <<names[i], scores[i]>>]

\* dict(pairs): the last pair of a key wins.
Dict(pairs) ==
    [k \in {pairs[i][1] : i \in 1..Len(pairs)} |->
        pairs[CHOOSE i \in 1..Len(pairs) :
                 /\ pairs[i][1] = k
                 /\ \A j \in 1..Len(pairs) : pairs[j][1] = k => j <= i][2]]

\* Mutant: the validation scores are zipped twice.
ReturnValueValTwice(names, val_scores, test_scores, path) ==
    <<Dict(Zip(names, val_scores)), Dict(Zip(names, val_scores)), path>>

\* Lines 160-162: the value main returns.
ReturnValue(names, val_scores, test_scores, path) ==
    <<Dict(Zip(names, val_scores)), Dict(Zip(names, test_scores)), path>>

\* model.fit(inputs, y, validation_split=0.1, ...): the History object.  The last tenth
\* of the samples is held out; validation_data lists the held-out inputs, the held-out
\* targets and the sample weights.
HeldOut(a) == SubSeq(a, ((Len(a) * 9) \div 10) + 1, Len(a))
fit(inputs, y) ==
    [validation_data |->
        [i \in 1..Len(inputs) |-> HeldOut(inputs[i])] \o <<HeldOut(y), "sample_weights">>]

\* a[:-1]
DropLast(a) == SubSeq(a, 1, Len(a) - 1)

\* Mutant: the trend is windowed with the shuffle of the training call.
ShuffleTrendOn == TRUE

\* Line 58-62, 84-88 / 92-95, 102-105: the shuffle argument of the three windowing calls.
ShuffleTrain == TRUE
ShuffleTest == FALSE
ShuffleTrend == FALSE

\* Line 102-106: the windowed test trend that replaces main's local trend.
TrendWindows(p, tr, order) ==
    get_rnn_inputs(tr[2], p.input_sequence_length, p.output_sequence_length,
                   order, FALSE).y

\* Line 148-150: the closures handed to tcn.evaluate.
FnInverseVal(ds, scaler, tr) == [inverse_transform_of |-> ds, scaler |-> scaler, trend |-> None]
FnInverseTest(ds, scaler, tr) == [inverse_transform_of |-> ds, scaler |-> scaler, trend |-> tr]
FnPlot(ds) == [samples_per_day_of |-> ds]

\* ---------------------------------------------------------------- state

Unbound == [bound |-> FALSE]

Module(name) == [kind |-> "module", name |-> name]
Instance(id) == [kind |-> "instance", id |-> id]
Function(name) == [kind |-> "function", name |-> name]

Call(op, on) == steps \o <<[op |-> op, on |-> on]>>

\* The locals of main before its first statement.
FreshLocals ==
    /\ dataset' = "unbound"
    /\ loaded' = Unbound
    /\ trend' = Unbound
    /\ windows' = Unbound
    /\ built' = Unbound
    /\ tcn' = NoId
    /\ model' = NoId
    /\ steps' = <<>>
    /\ history' = Unbound
    /\ model_filepath' = Unbound
    /\ evals' = [val |-> Unbound, test |-> Unbound]
    /\ result' = Unbound
    /\ failedAt' = "nowhere"

\* Line 27: args = get_args(), any parameter combination.
Init ==
    /\ params \in ParamSets
    /\ paramsAtEntry = params
    /\ pc = "script"
    /\ runner = Unbound
    /\ runs = 0
    /\ dataset = "unbound"
    /\ loaded = Unbound
    /\ trend = Unbound
    /\ windows = Unbound
    /\ built = Unbound
    /\ tcn = NoId
    /\ model = NoId
    /\ nextId = 1
    /\ earlier = {}
    /\ steps = <<>>
    /\ history = Unbound
    /\ clock = 1
    /\ model_filepath = Unbound
    /\ files = {}
    /\ evals = [val |-> Unbound, test |-> Unbound]
    /\ result = Unbound
    /\ failedAt = "nowhere"

\* ---------------------------------------------------------------- the script

\* Mutant: the two branches of the grid_search test are swapped.
RunScriptSwapped ==
    /\ pc = "script"
    /\ runner' = IF ~params.grid_search
                 THEN [name |-> "run_grid_search", ex_name |-> "tcn_grid_search",
                       f_main |-> "main", f_metrics |-> "log_metrics"]
                 ELSE [name |-> "run_single_experiment", ex_name |-> "tcn",
                       f_main |-> "main", f_metrics |-> "log_metrics"]
    /\ pc' = "runner"
    /\ UNCHANGED <<params, paramsAtEntry, runs, dataset, loaded, trend, windows, built,
                   tcn, model, nextId, earlier, steps, history, clock, model_filepath,
                   files, evals, result, failedAt>>

\* Lines 165-184: the script hands main to one of the two runners.
RunScript ==
    /\ pc = "script"
    /\ runner' = IF params.grid_search
                 THEN [name |-> "run_grid_search", ex_name |-> "tcn_grid_search",
                       f_main |-> "main", f_metrics |-> "log_metrics"]
                 ELSE [name |-> "run_single_experiment", ex_name |-> "tcn",
                       f_main |-> "main", f_metrics |-> "log_metrics"]
    /\ pc' = "runner"
    /\ UNCHANGED <<params, paramsAtEntry, runs, dataset, loaded, trend, windows, built,
                   tcn, model, nextId, earlier, steps, history, clock, model_filepath,
                   files, evals, result, failedAt>>

\* The configurations a runner may give to a run of main: a grid search tries other
\* combinations of the preprocessing and window hyperparameters on the same dataset and
\* architecture, a single experiment runs the parsed ones.
Configurations(p) ==
    IF p.grid_search
    THEN {q \in ParamSets : /\ q.grid_search
                            /\ q.dataset = p.dataset
                            /\ q.load = p.load
                            /\ q.tcn_type = p.tcn_type}
    ELSE {p}

\* The runner calls f_main: a new activation of main (lines 30-36).
RunnerCallsMain ==
    /\ pc = "runner"
    /\ runs < (IF params.grid_search THEN MaxRuns ELSE 1)
    /\ params' \in Configurations(params)
    /\ paramsAtEntry' = params'
    /\ runs' = runs + 1
    /\ earlier' = earlier \cup ({tcn, model} \ {NoId})
    /\ FreshLocals
    /\ pc' = "select_dataset"
    /\ UNCHANGED <<runner, nextId, clock, files>>

\* main returned to the runner, which runs the next configuration or ends.
RunnerAfterMain ==
    /\ pc = "returned"
    /\ pc' \in (IF params.grid_search /\ runs < MaxRuns THEN {"runner", "exit"} ELSE {"exit"})
    /\ UNCHANGED <<params, paramsAtEntry, runner, runs, dataset, loaded, trend, windows,
                   built, tcn, model, nextId, earlier, steps, history, clock,
                   model_filepath, files, evals, result, failedAt>>

\* ---------------------------------------------------------------- main

\* Mutant: the resolved loader name is written back into params.
ChooseDatasetWritingParams ==
    /\ pc = "select_dataset"
    /\ dataset' = SelectDataset(params.dataset)
    /\ params' = [params EXCEPT !.dataset = SelectDataset(params.dataset)]
    /\ pc' = "load_data"
    /\ UNCHANGED <<paramsAtEntry, runner, runs, loaded, trend, windows, built, tcn, model,
                   nextId, earlier, steps, history, clock, model_filepath, files, evals,
                   result, failedAt>>

\* Lines 41-45: choose the dataset module.
ChooseDataset ==
    /\ pc = "select_dataset"
    /\ dataset' = SelectDataset(params.dataset)
    /\ pc' = "load_data"
    /\ UNCHANGED <<params, paramsAtEntry, runner, runs, loaded, trend, windows, built, tcn,
                   model, nextId, earlier, steps, history, clock, model_filepath, files,
                   evals, result, failedAt>>

\* Lines 47-56: load the data, unpack it, drop the trend unless detrending.
LoadData ==
    /\ pc = "load_data"
    /\ LET data == load_data(dataset, params.detrend, params.exogenous)
       IN  /\ loaded' = [scaler |-> data.scaler, train |-> data.train, test |-> data.test]
           /\ trend' = TrendAfterLoad(params, data)
    /\ steps' = Call("load_data", Module(dataset))
    /\ pc' = "window_train"
    /\ UNCHANGED <<params, paramsAtEntry, runner, runs, dataset, windows, built, tcn,
                   model, nextId, earlier, history, clock, model_filepath, files, evals,
                   result, failedAt>>

\* Lines 58-62: window the training split, shuffled.
WindowTrain ==
    /\ pc = "window_train"
    /\ \E order \in ShuffleOrders(NumWindows(loaded.train, params.input_sequence_length,
                                             params.output_sequence_length), ShuffleTrain) :
          LET w == get_rnn_inputs(loaded.train, params.input_sequence_length,
                                  params.output_sequence_length, order, params.exogenous)
          IN  windows' = [X_train |-> w.X, y_train |-> w.y]
    /\ steps' = Call("window_train", Function("get_rnn_inputs"))
    /\ pc' = "TCNModel"
    /\ UNCHANGED <<params, paramsAtEntry, runner, runs, dataset, loaded, trend, built, tcn,
                   model, nextId, earlier, history, clock, model_filepath, files, evals,
                   result, failedAt>>

\* Mutant: one TCNModel is shared by the runs instead of constructed in each.
NewTCNModelShared ==
    /\ pc = "TCNModel"
    /\ tcn' = 1
    /\ nextId' = nextId + 1
    /\ steps' = Call("TCNModel", Instance(1))
    /\ pc' = "window_test"
    /\ UNCHANGED <<params, paramsAtEntry, runner, runs, dataset, loaded, trend, windows,
                   built, model, earlier, history, clock, model_filepath, files, evals,
                   result, failedAt>>

\* Lines 68-77: instantiate the TCNModel.
NewTCNModel ==
    /\ pc = "TCNModel"
    /\ tcn' = nextId
    /\ nextId' = nextId + 1
    /\ steps' = Call("TCNModel", Instance(nextId))
    /\ pc' = "window_test"
    /\ UNCHANGED <<params, paramsAtEntry, runner, runs, dataset, loaded, trend, windows,
                   built, model, earlier, history, clock, model_filepath, files, evals,
                   result, failedAt>>

\* Lines 79-98: split off the exogenous columns and window the test split, unshuffled.
WindowTest ==
    /\ pc = "window_test"
    /\ \E order \in ShuffleOrders(NumWindows(loaded.test, params.input_sequence_length,
                                             params.output_sequence_length), ShuffleTest) :
          IF params.exogenous
          THEN LET exog_var_train == ExogColumns(windows.y_train)
                   t == get_rnn_inputs(loaded.test, params.input_sequence_length,
                                       params.output_sequence_length, order, TRUE)
               IN  windows' = [X_train |-> windows.X_train,
                               y_train |-> TargetColumn(windows.y_train),
                               exog_var_train |-> Some(exog_var_train),
                               conditions_shape |-> Some(<<Shape1(exog_var_train),
                                                           ShapeLast(exog_var_train)>>),
                               X_test |-> t.X,
                               y_test |-> TargetColumn(t.y),
                               exog_var_test |-> Some(ExogColumns(t.y))]
          ELSE LET t == get_rnn_inputs(loaded.test, params.input_sequence_length,
                                       params.output_sequence_length, order, FALSE)
               IN  windows' = [X_train |-> windows.X_train,
                               y_train |-> windows.y_train,
                               exog_var_train |-> None,
                               conditions_shape |-> None,
                               X_test |-> t.X,
                               y_test |-> t.y,
                               exog_var_test |-> None]
    /\ steps' = Call("window_test", Function("get_rnn_inputs"))
    /\ pc' = IF params.detrend THEN "window_trend" ELSE "build_model"
    /\ UNCHANGED <<params, paramsAtEntry, runner, runs, dataset, loaded, trend, built, tcn,
                   model, nextId, earlier, history, clock, model_filepath, files, evals,
                   result, failedAt>>

\* Lines 101-106: window the test trend like the test inputs.
WindowTrend ==
    /\ pc = "window_trend"
    /\ \E order \in ShuffleOrders(NumWindows(trend.val[2], params.input_sequence_length,
                                             params.output_sequence_length), ShuffleTrend) :
          trend' = Some(TrendWindows(params, trend.val, order))
    /\ steps' = Call("window_trend", Function("get_rnn_inputs"))
    /\ pc' = "build_model"
    /\ UNCHANGED <<params, paramsAtEntry, runner, runs, dataset, loaded, windows, built,
                   tcn, model, nextId, earlier, history, clock, model_filepath, files,
                   evals, result, failedAt>>

\* Lines 108-111: build the keras model.
BuildModel ==
    /\ pc = "build_model"
    /\ built' = [by |-> tcn,
                 input_shape |-> <<Shape1(windows.X_train), ShapeLast(windows.X_train)>>,
                 horizon |-> params.output_sequence_length,
                 conditions_shape |-> windows.conditions_shape]
    /\ model' = nextId
    /\ nextId' = nextId + 1
    /\ steps' = Call("build_model", Instance(tcn))
    /\ pc' = IF params.load # "None" THEN "load_weights" ELSE "compile"
    /\ UNCHANGED <<params, paramsAtEntry, runner, runs, dataset, loaded, trend, windows,
                   tcn, earlier, history, clock, model_filepath, files, evals, result,
                   failedAt>>

\* Mutant: compile is skipped when weights were loaded.
LoadWeightsSkippingCompile ==
    /\ pc = "load_weights"
    /\ steps' = Call("load_weights", Instance(model))
    /\ pc' = "fit"
    /\ UNCHANGED <<params, paramsAtEntry, runner, runs, dataset, loaded, trend, windows,
                   built, tcn, model, nextId, earlier, history, clock, model_filepath,
                   files, evals, result, failedAt>>

\* Lines 113-115: load weights when a path was given.
LoadWeights ==
    /\ pc = "load_weights"
    /\ steps' = Call("load_weights", Instance(model))
    /\ pc' = "compile"
    /\ UNCHANGED <<params, paramsAtEntry, runner, runs, dataset, loaded, trend, windows,
                   built, tcn, model, nextId, earlier, history, clock, model_filepath,
                   files, evals, result, failedAt>>

\* Lines 117-119: compile with the metrics list.
Compile ==
    /\ pc = "compile"
    /\ steps' = Call("compile", Instance(model))
    /\ pc' = "fit"
    /\ UNCHANGED <<params, paramsAtEntry, runner, runs, dataset, loaded, trend, windows,
                   built, tcn, model, nextId, earlier, history, clock, model_filepath,
                   files, evals, result, failedAt>>

\* Lines 121-134: fit on the pair [X_train, exog_var_train] or on X_train alone.
Fit ==
    /\ pc = "fit"
    /\ LET inputs == IF FeedsPair(params)
                     THEN <<windows.X_train, windows.exog_var_train.val>>
                     ELSE <<windows.X_train>>
       IN  history' = [inputs |-> inputs, y |-> windows.y_train,
                       validation_data |-> fit(inputs, windows.y_train).validation_data]
    /\ steps' = Call("fit", Instance(model))
    /\ pc' = "save_weights"
    /\ UNCHANGED <<params, paramsAtEntry, runner, runs, dataset, loaded, trend, windows,
                   built, tcn, model, nextId, earlier, clock, model_filepath, files, evals,
                   result, failedAt>>

\* Lines 139-143: save the weights under a fresh path.
SaveWeights ==
    /\ pc = "save_weights"
    /\ model_filepath' = Some(WeightsPath(params, clock))
    /\ files' = files \cup {WeightsPath(params, clock)}
    /\ clock' = clock + 1
    /\ steps' = Call("save_weights", Instance(model))
    /\ pc' = "evaluate_val"
    /\ UNCHANGED <<params, paramsAtEntry, runner, runs, dataset, loaded, trend, windows,
                   built, tcn, model, nextId, earlier, history, evals, result, failedAt>>

\* Lines 148, 153 / 156: evaluate on the held-out validation data.
EvaluateVal ==
    /\ pc = "evaluate_val"
    /\ \E scores \in ScoreLists :
          evals' = [evals EXCEPT !.val =
                       [data |-> DropLast(history.validation_data),
                        fn_inverse |-> FnInverseVal(dataset, loaded.scaler, trend),
                        scores |-> scores]]
    /\ steps' = Call("evaluate_val", Instance(tcn))
    /\ pc' = "evaluate_test"
    /\ UNCHANGED <<params, paramsAtEntry, runner, runs, dataset, loaded, trend, windows,
                   built, tcn, model, nextId, earlier, history, clock, model_filepath,
                   files, result, failedAt>>

\* Lines 149-150, 154 / 157: evaluate on the test windows.
EvaluateTest ==
    /\ pc = "evaluate_test"
    /\ \E scores \in ScoreLists :
          evals' = [evals EXCEPT !.test =
                       [data |-> IF FeedsPair(params)
                                 THEN <<<<windows.X_test, windows.exog_var_test.val>>,
                                        windows.y_test>>
                                 ELSE <<<<windows.X_test>>, windows.y_test>>,
                        fn_inverse |-> FnInverseTest(dataset, loaded.scaler, trend),
                        fn_plot |-> FnPlot(dataset),
                        scores |-> scores]]
    /\ steps' = Call("evaluate_test", Instance(tcn))
    /\ pc' = "return"
    /\ UNCHANGED <<params, paramsAtEntry, runner, runs, dataset, loaded, trend, windows,
                   built, tcn, model, nextId, earlier, history, clock, model_filepath,
                   files, result, failedAt>>

\* Lines 159-162: name the scores and return.
Return ==
    /\ pc = "return"
    /\ result' = Some(ReturnValue(MetricsNames(metrics), evals.val.scores,
                                  evals.test.scores, model_filepath.val))
    /\ steps' = Call("metrics", Instance(model))
    /\ pc' = "returned"
    /\ UNCHANGED <<params, paramsAtEntry, runner, runs, dataset, loaded, trend, windows,
                   built, tcn, model, nextId, earlier, history, clock, model_filepath,
                   files, evals, failedAt>>

\* The calls of main that can raise.  main has no try/except: the exception leaves it.
CallSites ==
    {"load_data", "window_train", "TCNModel", "window_test", "window_trend", "build_model",
     "load_weights", "compile", "fit", "save_weights", "evaluate_val", "evaluate_test"}

\* Mutant: a failure of fit is swallowed and main goes on to save the weights.
RaiseSwallowedAtFit ==
    /\ pc \in CallSites
    /\ failedAt' = pc
    /\ pc' = IF pc = "fit" THEN "save_weights" ELSE "raised"
    /\ UNCHANGED <<params, paramsAtEntry, runner, runs, dataset, loaded, trend, windows,
                   built, tcn, model, nextId, earlier, steps, history, clock,
                   model_filepath, files, evals, result>>

\* Lines 30-162: a call raises and nothing in main catches it.
Raise ==
    /\ pc \in CallSites
    /\ failedAt' = pc
    /\ pc' = "raised"
    /\ UNCHANGED <<params, paramsAtEntry, runner, runs, dataset, loaded, trend, windows,
                   built, tcn, model, nextId, earlier, steps, history, clock,
                   model_filepath, files, evals, result>>

Next ==
    \/ RunScript
    \/ RunnerCallsMain
    \/ RunnerAfterMain
    \/ ChooseDataset
    \/ LoadData
    \/ WindowTrain
    \/ NewTCNModel
    \/ WindowTest
    \/ WindowTrend
    \/ BuildModel
    \/ LoadWeights
    \/ Compile
    \/ Fit
    \/ SaveWeights
    \/ EvaluateVal
    \/ EvaluateTest
    \/ Return
    \/ Raise

Spec == Init /\ [][Next]_vars

\* ---------------------------------------------------------------- claims

InMain == pc \notin {"script", "runner", "exit"}

Ops == {steps[i].op : i \in 1..Len(steps)}

\* The steps the order claim names, in the claimed order.
ClaimedOrder ==
    <<"load_data", "window_train", "build_model", "load_weights", "compile", "fit",
      "save_weights", "evaluate_val", "evaluate_test">>

Place(op) == CHOOSE i \in 1..Len(ClaimedOrder) : ClaimedOrder[i] = op

Named(i) == \E k \in 1..Len(ClaimedOrder) : ClaimedOrder[k] = steps[i].op

Optional(op) == op = "load_weights"

\* C1 (as claimed): in every completed run both evaluation passes undo the scaler and,
\* when detrend is enabled, re-add the trend: the validation pass as well as the test pass.
C1_BothPassesReaddTrend ==
    pc = "returned" =>
        /\ evals.val.fn_inverse.scaler = loaded.scaler
        /\ evals.test.fn_inverse.scaler = loaded.scaler
        /\ params.detrend => /\ evals.val.fn_inverse.trend # None
                             /\ evals.test.fn_inverse.trend # None

\* What feeding X alone or the pair [X, exogenous variables] looks like.
PairFed(inputs) == Len(inputs) = 2

\* Every window of X has the window length and feature count the model was built with.
MatchesInputShape(X) ==
    \A k \in 1..Len(X) :
        /\ Len(X[k]) = built.input_shape[1]
        /\ \A j \in 1..Len(X[k]) : Len(X[k][j]) = built.input_shape[2]

\* C2 (as claimed): the model is built with conditions_shape not None if and only if fit
\* and the test evaluation are given the pair [X, exogenous variables], and X has the
\* window length and feature count of the input_shape given to build_model.
C2_ConditionsIffPair ==
    /\ history # Unbound =>
          /\ (built.conditions_shape # None) <=> PairFed(history.inputs)
          /\ MatchesInputShape(history.inputs[1])
    /\ evals.test # Unbound =>
          /\ (built.conditions_shape # None) <=> PairFed(evals.test.data[1])
          /\ MatchesInputShape(evals.test.data[1][1])

\* Every exogenous tensor has the (horizon, feature count) of conditions_shape.
MatchesConditionsShape(E) ==
    \A k \in 1..Len(E) :
        /\ Len(E[k]) = built.conditions_shape.val[1]
        /\ \A j \in 1..Len(E[k]) : Len(E[k][j]) = built.conditions_shape.val[2]

FedAsBuilt(inputs) ==
    /\ PairFed(inputs) <=> (params.exogenous /\ params.tcn_type = "conditional_tcn")
    /\ PairFed(inputs) => /\ built.conditions_shape # None
                          /\ MatchesConditionsShape(inputs[2])
    /\ MatchesInputShape(inputs[1])

\* C2 (amended): conditions_shape is not None if and only if exogenous is set; fit and the
\* test evaluation are given the pair [X, exogenous variables] if and only if exogenous is
\* set and tcn_type is 'conditional_tcn', and then conditions_shape is not None and is the
\* (horizon, feature count) of the exogenous tensors; X has the window length and feature
\* count of the input_shape given to build_model.
C2_PairIffConditionalTcn ==
    /\ built # Unbound => ((built.conditions_shape # None) <=> params.exogenous)
    /\ history # Unbound => FedAsBuilt(history.inputs)
    /\ evals.test # Unbound => FedAsBuilt(evals.test.data[1])

\* C2 witness: a completed run that fed the pair, and so a model built with conditions.
C2_Witness ==
    /\ pc = "returned"
    /\ PairFed(history.inputs)
    /\ PairFed(evals.test.data[1])
    /\ Len(evals.test.data[1][1]) >= 2

\* C3: the named steps happen in the claimed order, each at most once; a step happens
\* only after every mandatory step before it; weights are saved only after fit and
\* evaluation starts only after the weights are saved; a completed run did them all.
C3_StepsInOrder ==
    /\ \A i, j \in 1..Len(steps) :
          (i < j /\ Named(i) /\ Named(j)) => Place(steps[i].op) < Place(steps[j].op)
    /\ \A i \in 1..Len(steps) : Named(i) =>
          \A k \in 1..(Place(steps[i].op) - 1) :
              ~Optional(ClaimedOrder[k]) => ClaimedOrder[k] \in Ops
    /\ model_filepath # Unbound => "fit" \in Ops
    /\ evals.val # Unbound => model_filepath # Unbound /\ model_filepath.val \in files
    /\ evals.test # Unbound => evals.val # Unbound
    /\ "load_weights" \in Ops => params.load # "None"
    /\ pc = "returned" =>
          \A k \in 1..Len(ClaimedOrder) :
              (ClaimedOrder[k] \in Ops) <=> (Optional(ClaimedOrder[k]) => params.load # "None")

\* C3 witness: a completed run that also loaded weights.
C3_Witness == pc = "returned" /\ "load_weights" \in Ops /\ Len(steps) >= 9

\* The loader the claim names for a dataset parameter.
ClaimedLoader == IF params.dataset = "gefcom" THEN "gefcom2014" ELSE "uci_single_households"

\* C4: 'gefcom' selects gefcom2014 and every other name uci_single_households, and that
\* one loader serves load_data, inverse_transform in both evaluation passes and
\* SAMPLES_PER_DAY in plotting.
C4_OneLoaderByName ==
    /\ (InMain /\ pc # "select_dataset") => dataset = ClaimedLoader
    /\ \A i \in 1..Len(steps) :
          steps[i].op = "load_data" => steps[i].on = Module(ClaimedLoader)
    /\ loaded # Unbound => loaded.scaler.fitted_by = ClaimedLoader
    /\ evals.val # Unbound => evals.val.fn_inverse.inverse_transform_of = ClaimedLoader
    /\ evals.test # Unbound =>
          /\ evals.test.fn_inverse.inverse_transform_of = ClaimedLoader
          /\ evals.test.fn_plot.samples_per_day_of = ClaimedLoader

\* C4 witness: a completed run on a dataset name that is neither 'gefcom' nor 'uci'.
C4_Witness ==
    /\ pc = "returned"
    /\ params.dataset = "household"
    /\ evals.test.fn_plot.samples_per_day_of = "uci_single_households"

\* The calls of main in program order.
ProgramOrder ==
    <<"load_data", "window_train", "TCNModel", "window_test", "window_trend", "build_model",
      "load_weights", "compile", "fit", "save_weights", "evaluate_val", "evaluate_test",
      "metrics">>

Position(op) == CHOOSE i \in 1..Len(ProgramOrder) : ProgramOrder[i] = op

\* C5: a failure of any step ends the run: main is left at the failing call, which is
\* not retried, no later step has run, no weights file exists unless save_weights had
\* already succeeded, and main returned nothing.
C5_FailurePropagates ==
    failedAt # "nowhere" =>
        /\ pc = "raised"
        /\ result = Unbound
        /\ \A i \in 1..Len(steps) : Position(steps[i].op) < Position(failedAt)
        /\ Position(failedAt) <= Position("save_weights") =>
              /\ model_filepath = Unbound
              /\ Cardinality(files) = runs - 1
        /\ Position(failedAt) <= Position("evaluate_val") => evals.val = Unbound
        /\ evals.test = Unbound

\* C5 witness: fit raised after the model was compiled.
C5_Witness == pc = "raised" /\ failedAt = "fit" /\ "compile" \in Ops

\* C6: the script invokes exactly one runner, run_grid_search as 'tcn_grid_search' when
\* grid_search is set and run_single_experiment as 'tcn' otherwise, with main and
\* log_metrics; every run of main that completes saved a weights file and returned its
\* path together with the metrics.
C6_OneRunnerAndSavedWeights ==
    /\ pc = "script" => runner = Unbound /\ runs = 0
    /\ pc # "script" =>
          /\ runner.name = IF params.grid_search
                           THEN "run_grid_search" ELSE "run_single_experiment"
          /\ runner.ex_name = IF params.grid_search THEN "tcn_grid_search" ELSE "tcn"
          /\ runner.f_main = "main"
          /\ runner.f_metrics = "log_metrics"
    /\ pc = "returned" =>
          /\ "save_weights" \in Ops
          /\ model_filepath # Unbound
          /\ model_filepath.val \in files
          /\ result # Unbound
          /\ Len(result.val) = 3
          /\ result.val[3] = model_filepath.val
          /\ DOMAIN result.val[1] # {}
          /\ DOMAIN result.val[2] # {}

\* C6 witness: a grid search whose second run of main completed.
C6_Witness ==
    /\ pc = "returned"
    /\ runner.name = "run_grid_search"
    /\ runs = 2
    /\ Cardinality(files) = 2

CountOf(op) == Cardinality({i \in 1..Len(steps) : steps[i].op = op})

\* C7: within one run TCNModel is instantiated once and build_model called once, on that
\* TCNModel; the model it returned is the one that loads weights, is compiled, fitted,
\* saved and asked for its metrics; no instance of an earlier run is used.
C7_OneModelPerRun ==
    /\ CountOf("TCNModel") <= 1
    /\ CountOf("build_model") <= 1
    /\ (tcn # NoId) <=> (CountOf("TCNModel") = 1)
    /\ (model # NoId) <=> (CountOf("build_model") = 1)
    /\ tcn \notin earlier
    /\ model \notin earlier
    /\ model # NoId => model # tcn /\ built.by = tcn
    /\ \A i \in 1..Len(steps) :
          /\ steps[i].op \in {"build_model", "evaluate_val", "evaluate_test"} =>
                steps[i].on = Instance(tcn) /\ tcn # NoId
          /\ steps[i].op \in {"load_weights", "compile", "fit", "save_weights", "metrics"} =>
                steps[i].on = Instance(model) /\ model # NoId
          /\ steps[i].on.kind = "instance" => steps[i].on.id \notin earlier
    /\ pc = "returned" => CountOf("TCNModel") = 1 /\ CountOf("build_model") = 1

\* C7 witness: the second run of a grid search completed with a model of its own.
C7_Witness ==
    /\ pc = "returned"
    /\ runs = 2
    /\ earlier # {}
    /\ "load_weights" \in Ops

\* C8: main never changes the parameter mapping: at every point of a run of main, and
\* when it returns or raises, params is what it was when the run started.
C8_ParamsUnchangedByMain == InMain => params = paramsAtEntry

\* C8 witness: main returned in a run that took every branch reading params.
C8_Witness ==
    /\ pc = "returned"
    /\ params.detrend
    /\ params.exogenous
    /\ params.load # "None"
    /\ params = paramsAtEntry

\* C9: a completed run returns (validation metrics, test metrics, path): both mappings
\* have the metric names of the compiled model as keys, the i-th name maps to the i-th
\* score of its pass, and the path is the one the weights were saved to.
C9_ReturnedTriple ==
    pc = "returned" =>
        /\ result # Unbound
        /\ Len(result.val) = 3
        /\ DOMAIN result.val[1] = {MetricEntry(i).name : i \in 1..NumMetrics}
        /\ DOMAIN result.val[2] = DOMAIN result.val[1]
        /\ \A i \in 1..NumMetrics :
              /\ result.val[1][MetricEntry(i).name] = evals.val.scores[i]
              /\ result.val[2][MetricEntry(i).name] = evals.test.scores[i]
        /\ result.val[3] = model_filepath.val
        /\ result.val[3] \in files

\* C9 witness: a completed run whose two passes scored differently.
C9_Witness ==
    /\ pc = "returned"
    /\ evals.val.scores # evals.test.scores
    /\ result.val[1] # result.val[2]

\* C10: with detrend the trend given to the test inverse transform is the horizon part of
\* the test trend, window for window and row for row the rows of the test targets, which
\* are in series order (only the training windows are shuffled); without detrend it is None.
C10_TrendAlignedWithTestTargets ==
    /\ (loaded # Unbound /\ ~params.detrend) => trend = None
    /\ windows # Unbound /\ "window_test" \in Ops =>
          \A k \in 1..Len(windows.y_test) : \A j \in 1..Len(windows.y_test[k]) :
              /\ windows.y_test[k][j].series = "test"
              /\ windows.y_test[k][j].pos = k + params.input_sequence_length + j - 1
    /\ evals.test # Unbound =>
          IF params.detrend
          THEN LET t == evals.test.fn_inverse.trend.val
                   y == evals.test.data[2]
               IN  /\ evals.test.fn_inverse.trend # None
                   /\ Len(t) = Len(y)
                   /\ \A k \in 1..Len(y) :
                         /\ Len(t[k]) = params.output_sequence_length
                         /\ Len(y[k]) = params.output_sequence_length
                         /\ \A j \in 1..Len(y[k]) :
                               /\ t[k][j].series = "trend_test"
                               /\ t[k][j].pos = y[k][j].pos
          ELSE evals.test.fn_inverse.trend = None

\* C10 witness: a detrended run with exogenous variables, at least two test windows and
\* training windows out of series order.
C10_Witness ==
    /\ pc = "returned"
    /\ params.detrend
    /\ params.exogenous
    /\ Len(evals.test.data[2]) >= 2
    /\ windows.X_train[1][1][1].pos # 1
    /\ evals.test.fn_inverse.trend.val[2][1].pos = evals.test.data[2][2][1].pos

====
